---- MODULE Spec2Model ----
(***************************************************************************)
(* Model of kensington-trackball-scroll (src/main.go): the startup of the  *)
(* physical and the virtual device, the signal listener goroutine, the     *)
(* processEvents loop, the translation of motion samples in handleEvents,  *)
(* the emission in sendScrollEvent and the shutdown in close.              *)
(*                                                                         *)
(* The main goroutine is a program counter pc over the syscalls of main;   *)
(* the listener goroutine is lpc; the environment delivers signals, makes  *)
(* syscalls fail and supplies the batches device.Read returns.             *)
(***************************************************************************)
EXTENDS Integers, Sequences, FiniteSets, TLC

\* ------------------------------------------------------------------------
\* Bounds of the model
\* ------------------------------------------------------------------------
MaxReads == 2       \* device.Read calls that return in the lifecycle model
MaxBatch == 2       \* samples in one batch returned by device.Read
MaxSignals == 2     \* interrupt/terminate signals delivered to the process
NumNodes == 2       \* device nodes scanned (MAX_EVENT_DEVICES in the source)
MaxReadsT == 1
MaxCloses == 2      \* device.Read calls that return in the translation model

\* ------------------------------------------------------------------------
\* Program constants
\* ------------------------------------------------------------------------
EV_REL == 2
REL_WHEEL == 8
REL_HWHEEL == 6
EV_SYN == 0
SYN_REPORT == 0
REL_X == 0
REL_Y == 1
DEFAULT_DEAD_ZONE == 2
MaxInt32 == 2147483647
MinInt32 == -2147483647 - 1

\* DEFAULT_SENSITIVITY = 0.3 as the fraction n/d
DEFAULT_SENSITIVITY == [n |-> 3, d |-> 10]

\* ------------------------------------------------------------------------
\* int32 arithmetic of handleEvents
\* ------------------------------------------------------------------------

\* Unary minus on int32: -x wraps at the minimum value.
Neg32(x) == IF x = MinInt32 THEN MinInt32 ELSE -x

\* func abs(x int32) int32
abs(x) == IF x < 0 THEN Neg32(x) ELSE x

\* The real number float64(m) * s truncated toward zero, for s = n/d:
\* [fits |-> whether it is an int32, val |-> the truncated value if it fits,
\*  neg |-> its sign]. Computed on -|m|, which every int32 has, without
\* leaving the 32-bit range: with -|m| = nq*d - r (0 <= r < d) and
\* e = floor(r*n/d), -floor(|m|*n/d) = nq*n - e.
\* float64(m) is exact for every int32 m, and for the sensitivities of the
\* model (1/2, 1, 2 exactly representable; 3/10 with relative error below
\* half an ulp) the float64 product truncates to the same integer as the
\* exact product.
ScaleExact(m, s) ==
    LET nm == IF m > 0 THEN -m ELSE m
        nq == (nm + s.d - 1) \div s.d
        r == nq * s.d - nm
        e == (r * s.n) \div s.d
        low == IF m < 0 THEN MinInt32 ELSE -MaxInt32
        fits == nq >= (low + e + s.n - 1) \div s.n
        nmag == nq * s.n - e
    IN  IF fits
        THEN [fits |-> TRUE, neg |-> m < 0,
              val |-> IF m < 0 THEN nmag ELSE -nmag]
        ELSE [fits |-> FALSE, neg |-> m < 0, val |-> 0]

\* int32(float64(m) * s): truncation toward zero; when the value is not
\* representable the result is implementation-dependent: the amd64 build
\* yields the minimum value, the arm64 build saturates.
ToInt32(m, s, b) ==
    LET x == ScaleExact(m, s)
    IN  IF x.fits THEN x.val
        ELSE IF b = "amd64" THEN MinInt32
        ELSE IF x.neg THEN MinInt32 ELSE MaxInt32

\* ------------------------------------------------------------------------
\* State
\* ------------------------------------------------------------------------
VARIABLES
    pc,            \* position of the main goroutine in main
    sensitivity,   \* ts.sensitivity, a fraction [n, d]
    deadZone,      \* ts.deadZone
    build,         \* the build's out-of-range float conversion
    finalDevicePath, \* result of selectDevice
    scan,          \* the selectDevice call whose result is in use
    phys,          \* physical device: "closed", "open", "grabbed", "released"
    virtualFd,     \* uinput descriptor: "none", "open", "closed"
    vdev,          \* virtual device: "none", "active", "destroyed"
    trace,         \* device requests issued so far, in program order
    notify,        \* signal.Notify has been called
    signalChan,    \* signals buffered in signalChan (capacity 1)
    lpc,           \* listener goroutine: "none", "recv", "close", "done"
    stopChan,      \* "none", "open", "closed"
    signals,       \* signals delivered so far
    sigWhileHeld,  \* a signal was delivered while the physical device was held
    reads,         \* device.Read calls that returned a batch
    batch,         \* events of the batch being handled
    idx,           \* index of the next event of batch to handle
    cmds,          \* per handled event of batch: the sendScrollEvent call made
    written,       \* records written to the virtual device for the current batch
    emitErr,       \* a write in sendScrollEvent has failed
    emitAfterErr,  \* sendScrollEvent was called after a write had failed
    readsAfterErr, \* device.Read returned after a write had failed
    readsAfterStop,   \* device.Read calls that returned with stopChan closed
    batchesAfterStop, \* batches with a sendScrollEvent call made with stopChan closed
    procResult,    \* processEvents: "running", "nil", "err"
    stopAtReturn,  \* stopChan was closed when processEvents returned
    closeCalls,    \* invocations of scroller.close()
    stopCloses,    \* executions of close(stopChan)
    cause,         \* why the process ended
    exitStatus     \* -1 while running, else the exit status

vars == <<pc, sensitivity, deadZone, build, finalDevicePath, scan, phys, virtualFd,
          vdev, trace, notify, signalChan, lpc, stopChan, signals,
          sigWhileHeld, reads, batch, idx, cmds, written, emitErr,
          emitAfterErr, readsAfterErr, readsAfterStop, batchesAfterStop,
          procResult, stopAtReturn, closeCalls, stopCloses, cause,
          exitStatus>>

configVars == <<sensitivity, deadZone, build>>
devVars == <<phys, virtualFd, vdev, trace>>
sigVars == <<notify, signalChan, lpc, stopChan, signals, sigWhileHeld>>
loopVars == <<reads, batch, idx, cmds, written, emitErr, emitAfterErr,
              readsAfterErr, readsAfterStop, batchesAfterStop, procResult,
              stopAtReturn>>
endVars == <<cause, exitStatus>>
pathVars == <<finalDevicePath, scan>>
countVars == <<closeCalls, stopCloses>>

Req(o, k) == [op |-> o, ok |-> k]

\* State after flag.Parse with the given flag values.
Start(s, dz, b) ==
    /\ pc = "selectDevice"
    /\ sensitivity = s
    /\ deadZone = dz
    /\ build = b
    /\ finalDevicePath = <<"none", 0>>
    /\ scan = [auto |-> FALSE, probed |-> <<>>, nodes |-> <<>>]
    /\ phys = "closed"
    /\ virtualFd = "none"
    /\ vdev = "none"
    /\ trace = <<>>
    /\ notify = FALSE
    /\ signalChan = 0
    /\ lpc = "none"
    /\ stopChan = "none"
    /\ signals = 0
    /\ sigWhileHeld = FALSE
    /\ reads = 0
    /\ batch = <<>>
    /\ idx = 1
    /\ cmds = <<>>
    /\ written = <<>>
    /\ emitErr = FALSE
    /\ emitAfterErr = FALSE
    /\ readsAfterErr = 0
    /\ readsAfterStop = 0
    /\ batchesAfterStop = {}
    /\ procResult = "running"
    /\ stopAtReturn = FALSE
    /\ closeCalls = 0
    /\ stopCloses = 0
    /\ cause = "none"
    /\ exitStatus = -1

Builds == {"amd64", "arm64"}

Init == Start(DEFAULT_SENSITIVITY, DEFAULT_DEAD_ZONE, "amd64")

\* log.Fatal / log.Fatalf: print and os.Exit(1); deferred calls do not run.
Fatal(why) ==
    /\ pc' = "exit"
    /\ cause' = why
    /\ exitStatus' = 1

\* ------------------------------------------------------------------------
\* selectDevice and findTrackballDevices
\* ------------------------------------------------------------------------
\* Strings are sequences of characters, so that strings.ToLower and
\* strings.Contains are computed.
Upper == <<"A", "B", "C", "D", "E", "F", "G", "H", "I", "J", "K", "L",
           "M", "N", "O", "P", "Q", "R", "S", "T", "U", "V", "W", "X",
           "Y", "Z">>
Lower == <<"a", "b", "c", "d", "e", "f", "g", "h", "i", "j", "k", "l",
           "m", "n", "o", "p", "q", "r", "s", "t", "u", "v", "w", "x",
           "y", "z">>

ToLowerChar(c) ==
    IF \E i \in DOMAIN Upper : Upper[i] = c
    THEN Lower[CHOOSE i \in DOMAIN Upper : Upper[i] = c]
    ELSE c

\* strings.ToLower
ToLower(str) == [i \in DOMAIN str |-> ToLowerChar(str[i])]

\* strings.Contains
Contains(str, sub) ==
    \E i \in 0 .. (Len(str) - Len(sub)) : SubSeq(str, i + 1, i + Len(sub)) = sub

\* var trackballKeywords
trackballKeywords ==
    <<<<"t", "r", "a", "c", "k", "b", "a", "l", "l">>,
      <<"e", "x", "p", "e", "r", "t", " ", "m", "o", "u", "s", "e">>,
      <<"o", "r", "b", "i", "t">>,
      <<"s", "l", "i", "m", "b", "l", "a", "d", "e">>>>

\* isTrackballDevice
isTrackballDevice(deviceName) ==
    LET name == ToLower(deviceName)
    IN  \E k \in DOMAIN trackballKeywords : Contains(name, trackballKeywords[k])

\* Names a device node may report.
KensingtonExpertMouse ==
    <<"K", "e", "n", "s", "i", "n", "g", "t", "o", "n", " ", "E", "x",
      "p", "e", "r", "t", " ", "M", "o", "u", "s", "e">>
GenericUSBMouse ==
    <<"G", "e", "n", "e", "r", "i", "c", " ", "U", "S", "B", " ", "M",
      "o", "u", "s", "e">>
OrbitUpper == <<"O", "R", "B", "I", "T">>
TrackBall == <<"T", "r", "a", "c", "k", " ", "B", "a", "l", "l">>

DeviceNames == {KensingtonExpertMouse, GenericUSBMouse, OrbitUpper, TrackBall}

\* A device node: evdev.Open fails on it, or it opens and reports a name.
NodeStates ==
    {[open |-> FALSE, name |-> <<>>]}
    \cup {[open |-> TRUE, name |-> n] : n \in DeviceNames}
Nodes == 0 .. (NumNodes - 1)

\* for i := 0; i < MAX_EVENT_DEVICES; i++: the nodes, in index order, that
\* open and whose name isTrackballDevice accepts.
RECURSIVE ScanFrom(_, _)
ScanFrom(i, nodes) ==
    IF i >= NumNodes THEN <<>>
    ELSE IF ~nodes[i].open THEN ScanFrom(i + 1, nodes)
    ELSE IF isTrackballDevice(nodes[i].name)
         THEN <<i>> \o ScanFrom(i + 1, nodes)
         ELSE ScanFrom(i + 1, nodes)

findTrackballDevices(nodes) == ScanFrom(0, nodes)

\* The nodes findTrackballDevices calls evdev.Open on, in order.
Probed == [i \in 1 .. NumNodes |-> i - 1]

\* selectDevice returning the last match instead of the first
selectDevice_Last(devicePath, nodes) ==
    IF devicePath # "auto"
    THEN [err |-> FALSE, path |-> <<"explicit", 0>>, probed |-> <<>>]
    ELSE LET trackballs == findTrackballDevices(nodes)
         IN  IF Len(trackballs) = 0
             THEN [err |-> TRUE, path |-> <<"none", 0>>, probed |-> Probed]
             ELSE [err |-> FALSE, path |-> <<"event", trackballs[Len(trackballs)]>>,
                   probed |-> Probed]

\* selectDevice: [err, path], and the nodes it probed
selectDevice(devicePath, nodes) ==
    IF devicePath # "auto"
    THEN [err |-> FALSE, path |-> <<"explicit", 0>>, probed |-> <<>>]
    ELSE LET trackballs == findTrackballDevices(nodes)
         IN  IF Len(trackballs) = 0
             THEN [err |-> TRUE, path |-> <<"none", 0>>, probed |-> Probed]
             ELSE [err |-> FALSE, path |-> <<"event", trackballs[1]>>,
                   probed |-> Probed]

\* No selectDevice call whose result is in use.
NoScan == [auto |-> FALSE, probed |-> <<>>, nodes |-> <<>>]

\* The record of a selectDevice call: the nodes as the call found them and
\* the nodes it probed. It is kept until main uses the returned path in
\* openTrackballDevice, or to the end of the process when selectDevice fails.
ScanOf(devicePath, nodes) ==
    [auto |-> devicePath = "auto",
     probed |-> selectDevice(devicePath, nodes).probed,
     nodes |-> IF devicePath = "auto" THEN nodes ELSE <<>>]

SelectDeviceOk ==
    /\ pc = "selectDevice"
    /\ \E devicePath \in {"auto", "explicit"}, nodes \in [Nodes -> NodeStates] :
          LET r == selectDevice(devicePath, nodes)
          IN  /\ ~r.err
              /\ finalDevicePath' = r.path
              /\ scan' = ScanOf(devicePath, nodes)
    /\ pc' = "open"
    /\ UNCHANGED <<configVars, countVars, devVars, sigVars, loopVars, endVars>>

SelectDeviceFail ==
    /\ pc = "selectDevice"
    /\ \E nodes \in [Nodes -> NodeStates] :
          /\ selectDevice("auto", nodes).err
          /\ scan' = ScanOf("auto", nodes)
    /\ Fatal("select")
    /\ UNCHANGED <<finalDevicePath, configVars, countVars, devVars, sigVars, loopVars>>

\* ------------------------------------------------------------------------
\* openTrackballDevice
\* ------------------------------------------------------------------------
OpenOk ==
    /\ pc = "open"
    /\ phys' = "open"
    /\ trace' = Append(trace, Req("popen", TRUE))
    /\ pc' = "grab"
    /\ scan' = NoScan
    /\ UNCHANGED <<finalDevicePath, configVars, countVars, virtualFd, vdev, sigVars,
                   loopVars, endVars>>

OpenFail ==
    /\ pc = "open"
    /\ trace' = Append(trace, Req("popen", FALSE))
    /\ Fatal("open")
    /\ scan' = NoScan
    /\ UNCHANGED <<finalDevicePath, configVars, countVars, phys, virtualFd, vdev, sigVars,
                   loopVars>>

GrabOk ==
    /\ pc = "grab"
    /\ phys' = "grabbed"
    /\ trace' = Append(trace, Req("grab", TRUE))
    /\ pc' = "uinputOpen"
    /\ UNCHANGED <<pathVars, configVars, countVars, virtualFd, vdev, sigVars,
                   loopVars, endVars>>

GrabFail ==
    /\ pc = "grab"
    /\ trace' = Append(trace, Req("grab", FALSE))
    /\ Fatal("grab")
    /\ UNCHANGED <<pathVars, configVars, countVars, phys, virtualFd, vdev, sigVars,
                   loopVars>>

\* ------------------------------------------------------------------------
\* createScrollOnlyDevice, called by newTrackballScroller
\* ------------------------------------------------------------------------

\* The capabilities configureDevice declares, in order.
capabilities == <<"EV_REL", "REL_WHEEL", "REL_HWHEEL", "EV_SYN">>

\* The requests of a complete startup, in program order.
StartupOrder ==
    <<Req("popen", TRUE), Req("grab", TRUE), Req("vopen", TRUE),
      Req("EV_REL", TRUE), Req("REL_WHEEL", TRUE), Req("REL_HWHEEL", TRUE),
      Req("EV_SYN", TRUE), Req("UI_DEV_SETUP", TRUE),
      Req("UI_DEV_CREATE", TRUE), Req("settle", TRUE)>>

\* A step of createScrollOnlyDevice after the open failed: syscall.Close(fd),
\* return -1, err; newTrackballScroller returns the error and main calls
\* log.Fatalf.
CreateFailed(req) ==
    /\ trace' = trace \o <<Req(req, FALSE), Req("vclose", TRUE)>>
    /\ virtualFd' = "closed"
    /\ Fatal("vdev")
    /\ UNCHANGED <<pathVars, configVars, countVars, phys, vdev, sigVars, loopVars>>

\* A step of createScrollOnlyDevice that succeeded.
CreateStep(req, next) ==
    /\ trace' = Append(trace, Req(req, TRUE))
    /\ pc' = next
    /\ UNCHANGED <<pathVars, configVars, countVars, phys, virtualFd, sigVars,
                   loopVars, endVars>>

UinputOpenOk ==
    /\ pc = "uinputOpen"
    /\ virtualFd' = "open"
    /\ trace' = Append(trace, Req("vopen", TRUE))
    /\ pc' = "configure1"
    /\ UNCHANGED <<pathVars, configVars, countVars, phys, vdev, sigVars, loopVars,
                   endVars>>

UinputOpenFail ==
    /\ pc = "uinputOpen"
    /\ trace' = Append(trace, Req("vopen", FALSE))
    /\ Fatal("vdev")
    /\ UNCHANGED <<pathVars, configVars, countVars, phys, virtualFd, vdev, sigVars,
                   loopVars>>

ConfigPcs == <<"configure1", "configure2", "configure3", "configure4", "setup">>

ConfigureOk ==
    \E i \in 1 .. Len(capabilities) :
        /\ pc = ConfigPcs[i]
        /\ CreateStep(capabilities[i], ConfigPcs[i + 1])
        /\ UNCHANGED vdev

ConfigureFail ==
    \E i \in 1 .. Len(capabilities) :
        /\ pc = ConfigPcs[i]
        /\ CreateFailed(capabilities[i])

SetupOk ==
    /\ pc = "setup"
    /\ CreateStep("UI_DEV_SETUP", "create")
    /\ UNCHANGED vdev

\* setupDevice's error not returned: the startup goes on to createDevice.
SetupFail_Continue ==
    /\ pc = "setup"
    /\ trace' = Append(trace, Req("UI_DEV_SETUP", FALSE))
    /\ pc' = "create"
    /\ UNCHANGED <<pathVars, configVars, countVars, phys, virtualFd, vdev,
                   sigVars, loopVars, endVars>>

SetupFail ==
    /\ pc = "setup"
    /\ CreateFailed("UI_DEV_SETUP")

CreateOk ==
    /\ pc = "create"
    /\ CreateStep("UI_DEV_CREATE", "sleep")
    /\ vdev' = "active"

\* createDevice's error not returned: the startup goes on to the settle delay.
CreateFail_Continue ==
    /\ pc = "create"
    /\ trace' = Append(trace, Req("UI_DEV_CREATE", FALSE))
    /\ pc' = "sleep"
    /\ UNCHANGED <<pathVars, configVars, countVars, phys, virtualFd, vdev, sigVars,
                   loopVars, endVars>>

CreateFail ==
    /\ pc = "create"
    /\ CreateFailed("UI_DEV_CREATE")

\* time.Sleep(DEVICE_SETUP_DELAY); return fd, nil. newTrackballScroller builds
\* the scroller and main registers defer scroller.close().
Settle ==
    /\ pc = "sleep"
    /\ CreateStep("settle", "signalSetup")
    /\ UNCHANGED vdev

\* ------------------------------------------------------------------------
\* setupSignalHandling and the listener goroutine
\* ------------------------------------------------------------------------
setupSignalHandling ==
    /\ pc = "signalSetup"
    /\ stopChan' = "open"
    /\ notify' = TRUE
    /\ lpc' = "recv"
    /\ pc' = "check"
    /\ UNCHANGED <<pathVars, configVars, countVars, devVars, signalChan, signals,
                   sigWhileHeld, loopVars, endVars>>

\* An interrupt or terminate signal before signal.Notify: the runtime's default
\* disposition ends the process at once.
SignalDefault ==
    /\ pc # "exit"
    /\ signals < MaxSignals
    /\ ~notify
    /\ signals' = signals + 1
    /\ sigWhileHeld' = (sigWhileHeld \/ phys = "grabbed")
    /\ pc' = "exit"
    /\ cause' = "signal"
    /\ exitStatus' = 2
    /\ UNCHANGED <<pathVars, configVars, countVars, devVars, notify, signalChan,
                   lpc, stopChan, loopVars>>

\* A signal after signal.Notify: sent to signalChan without blocking, dropped
\* when the buffer of one is full.
SignalNotify ==
    /\ pc # "exit"
    /\ signals < MaxSignals
    /\ notify
    /\ signals' = signals + 1
    /\ sigWhileHeld' = (sigWhileHeld \/ phys = "grabbed")
    /\ signalChan' = 1
    /\ UNCHANGED <<pc, pathVars, configVars, countVars, devVars, notify, lpc,
                   stopChan, loopVars, endVars>>

\* <-signalChan
ListenerRecv ==
    /\ pc # "exit"
    /\ lpc = "recv"
    /\ signalChan = 1
    /\ signalChan' = 0
    /\ lpc' = "close"
    /\ UNCHANGED <<pc, pathVars, configVars, countVars, devVars, notify, stopChan,
                   signals, sigWhileHeld, loopVars, endVars>>

\* a listener that waits for the next signal after closing stopChan
ListenerClose_Loop ==
    /\ pc # "exit"
    /\ lpc = "close"
    /\ stopChan' = "closed"
    /\ lpc' = "recv"
    /\ stopCloses' = stopCloses + 1
    /\ UNCHANGED <<pc, pathVars, configVars, closeCalls, devVars, notify,
                   signalChan, signals, sigWhileHeld, loopVars, endVars>>

\* close(stopChan)
ListenerClose ==
    /\ pc # "exit"
    /\ lpc = "close"
    /\ stopChan' = "closed"
    /\ lpc' = "done"
    /\ stopCloses' = stopCloses + 1
    /\ UNCHANGED <<pc, pathVars, configVars, closeCalls, devVars, notify, signalChan,
                   signals, sigWhileHeld, loopVars, endVars>>

\* ------------------------------------------------------------------------
\* handleEvents and sendScrollEvent
\* ------------------------------------------------------------------------
Event(t, c, v) == [type |-> t, code |-> c, value |-> v]

\* the dead-zone comparison with >= for >
Gate_AtLeast(value, scrollValue, dz) == abs(value) >= dz /\ scrollValue # 0

\* if abs(event.Value) > ts.deadZone && scrollValue != 0
Gate(value, scrollValue, dz) == abs(value) > dz /\ scrollValue # 0

\* scrollValue of a REL_Y event: -int32(float64(event.Value) * ts.sensitivity)
ScrollY(value, s, b) == Neg32(ToInt32(value, s, b))

\* scrollValue of a REL_X event: int32(float64(event.Value) * ts.sensitivity)
ScrollX(value, s, b) == ToInt32(value, s, b)

Cmd(h, v) == [sent |-> TRUE, horiz |-> h, value |-> v]
NoCmd == [sent |-> FALSE, horiz |-> FALSE, value |-> 0]

\* One iteration of the loop of handleEvents: the sendScrollEvent call it
\* makes for the event, or NoCmd.
Translate(event, s, dz, b) ==
    IF event.type # EV_REL THEN NoCmd
    ELSE IF event.code = REL_X
         THEN IF Gate(event.value, ScrollX(event.value, s, b), dz)
              THEN Cmd(TRUE, ScrollX(event.value, s, b))
              ELSE NoCmd
    ELSE IF event.code = REL_Y
         THEN IF Gate(event.value, ScrollY(event.value, s, b), dz)
              THEN Cmd(FALSE, ScrollY(event.value, s, b))
              ELSE NoCmd
    ELSE NoCmd

\* The two records sendScrollEvent writes, in order.
sendScrollEvent(isHorizontal, value) ==
    <<[type |-> EV_REL,
       code |-> IF isHorizontal THEN REL_HWHEEL ELSE REL_WHEEL,
       value |-> value],
      [type |-> EV_SYN, code |-> SYN_REPORT, value |-> 0]>>

\* The records that reach the device when the first failing write is number
\* failAt (3: no write fails); sendScrollEvent returns at the first failure.
Written(events, failAt) == SubSeq(events, 1, failAt - 1)

\* handleEvents returning at the first failed sendScrollEvent
HandleEvent_ReturnOnError ==
    /\ pc = "handle"
    /\ idx <= Len(batch)
    /\ LET c == Translate(batch[idx], sensitivity, deadZone, build)
       IN  /\ cmds' = Append(cmds, c)
           /\ IF c.sent
              THEN \E failAt \in 1 .. 3 :
                     /\ pc' = IF idx = Len(batch) \/ failAt < 3
                              THEN "check" ELSE "handle"
                     /\ written' = written \o
                            Written(sendScrollEvent(c.horiz, c.value), failAt)
                     /\ emitErr' = (emitErr \/ failAt < 3)
                     /\ emitAfterErr' = (emitAfterErr \/ emitErr)
                     /\ batchesAfterStop' =
                            IF stopChan = "closed"
                            THEN batchesAfterStop \cup {reads}
                            ELSE batchesAfterStop
              ELSE /\ pc' = IF idx = Len(batch) THEN "check" ELSE "handle"
                   /\ UNCHANGED <<written, emitErr, emitAfterErr,
                                  batchesAfterStop>>
    /\ idx' = idx + 1
    /\ UNCHANGED <<pathVars, configVars, countVars, devVars, sigVars, reads, batch,
                   readsAfterErr, readsAfterStop, procResult, stopAtReturn,
                   endVars>>

\* handleEvents, one event: translate it and, if the gate passes, call
\* sendScrollEvent, whose error is discarded; then the next event, or back to
\* the top of the loop of processEvents after the last one.
HandleEvent ==
    /\ pc = "handle"
    /\ idx <= Len(batch)
    /\ LET c == Translate(batch[idx], sensitivity, deadZone, build)
       IN  /\ cmds' = Append(cmds, c)
           /\ IF c.sent
              THEN \E failAt \in 1 .. 3 :
                     /\ written' = written \o
                            Written(sendScrollEvent(c.horiz, c.value), failAt)
                     /\ emitErr' = (emitErr \/ failAt < 3)
                     /\ emitAfterErr' = (emitAfterErr \/ emitErr)
                     /\ batchesAfterStop' =
                            IF stopChan = "closed"
                            THEN batchesAfterStop \cup {reads}
                            ELSE batchesAfterStop
              ELSE UNCHANGED <<written, emitErr, emitAfterErr, batchesAfterStop>>
    /\ idx' = idx + 1
    /\ pc' = IF idx = Len(batch) THEN "check" ELSE "handle"
    /\ UNCHANGED <<pathVars, configVars, countVars, devVars, sigVars, reads, batch,
                   readsAfterErr, readsAfterStop, procResult, stopAtReturn,
                   endVars>>

\* ------------------------------------------------------------------------
\* processEvents
\* ------------------------------------------------------------------------

\* case <-stopChan: return nil. main prints, returns, and the deferred
\* scroller.close() starts.
CheckStopClosed ==
    /\ pc = "check"
    /\ stopChan = "closed"
    /\ procResult' = "nil"
    /\ stopAtReturn' = TRUE
    /\ cause' = "stop"
    /\ pc' = "closeDestroy"
    /\ closeCalls' = closeCalls + 1
    /\ UNCHANGED <<pathVars, configVars, stopCloses, devVars, sigVars, reads, batch,
                   idx, cmds, written, emitErr, emitAfterErr, readsAfterErr,
                   readsAfterStop, batchesAfterStop, exitStatus>>

\* the select taking its default case whether or not stopChan is closed
CheckStopDefault_Always ==
    /\ pc = "check"
    /\ pc' = "read"
    /\ UNCHANGED <<pathVars, configVars, countVars, devVars, sigVars, loopVars,
                   endVars>>

\* default: go on to ts.device.Read()
CheckStopDefault ==
    /\ pc = "check"
    /\ stopChan = "open"
    /\ pc' = "read"
    /\ UNCHANGED <<pathVars, configVars, countVars, devVars, sigVars, loopVars,
                   endVars>>

\* ts.device.Read() returns a batch.
ReadOk(batches, limit) ==
    /\ pc = "read"
    /\ reads < limit
    /\ \E b \in batches : batch' = b
    /\ idx' = 1
    /\ cmds' = <<>>
    /\ reads' = reads + 1
    /\ readsAfterStop' = readsAfterStop + (IF stopChan = "closed" THEN 1 ELSE 0)
    /\ readsAfterErr' = readsAfterErr + (IF emitErr THEN 1 ELSE 0)
    /\ written' = <<>>
    /\ pc' = "handle"
    /\ UNCHANGED <<pathVars, configVars, countVars, devVars, sigVars,
                   emitErr, emitAfterErr, batchesAfterStop, procResult,
                   stopAtReturn, endVars>>

\* ts.device.Read() fails: processEvents returns the error and main calls
\* log.Fatalf.
ReadFail ==
    /\ pc = "read"
    /\ procResult' = "err"
    /\ stopAtReturn' = (stopChan = "closed")
    /\ Fatal("read")
    /\ UNCHANGED <<pathVars, configVars, countVars, devVars, sigVars, reads, batch,
                   idx, cmds, written, emitErr, emitAfterErr, readsAfterErr,
                   readsAfterStop, batchesAfterStop>>

\* ------------------------------------------------------------------------
\* close, deferred in main
\* ------------------------------------------------------------------------

\* syscall.Syscall(SYS_IOCTL, ts.virtualFd, UI_DEV_DESTROY, 0), result ignored
CloseDestroy ==
    /\ pc = "closeDestroy"
    /\ virtualFd # "none"
    /\ \E ok \in BOOLEAN :
          /\ trace' = Append(trace, Req("UI_DEV_DESTROY", ok))
          /\ vdev' = IF ok THEN "destroyed" ELSE vdev
    /\ pc' = "closeVfd"
    /\ UNCHANGED <<pathVars, configVars, countVars, phys, virtualFd, sigVars,
                   loopVars, endVars>>

\* close returning as soon as syscall.Close fails
CloseVfd_AbortOnError ==
    /\ pc = "closeVfd"
    /\ virtualFd' = "closed"
    /\ \E ok \in BOOLEAN :
          /\ trace' = Append(trace, Req("vclose", ok))
          /\ pc' = IF ok THEN "closeRelease" ELSE "exit"
          /\ exitStatus' = IF ok THEN exitStatus ELSE 0
    /\ UNCHANGED <<pathVars, configVars, countVars, phys, vdev, sigVars, loopVars, cause>>

\* syscall.Close(ts.virtualFd), result ignored
CloseVfd ==
    /\ pc = "closeVfd"
    /\ \E ok \in BOOLEAN : trace' = Append(trace, Req("vclose", ok))
    /\ virtualFd' = "closed"
    /\ pc' = "closeRelease"
    /\ UNCHANGED <<pathVars, configVars, countVars, phys, vdev, sigVars, loopVars,
                   endVars>>

\* if ts.device != nil { ts.device.Release() }, result ignored. The field
\* ts.device is never set back to nil, so the guard still holds once the
\* handle has been released.
Release ==
    /\ phys # "closed"
    /\ \E ok \in BOOLEAN :
          /\ trace' = Append(trace, Req("release", ok))
          /\ phys' = IF ok THEN "released" ELSE phys

\* The deferred close ends with the release; main ends with status 0.
CloseRelease ==
    /\ pc = "closeRelease"
    /\ Release
    /\ pc' = "exit"
    /\ exitStatus' = 0
    /\ UNCHANGED <<pathVars, configVars, countVars, virtualFd, vdev, sigVars,
                   loopVars, cause>>

\* ------------------------------------------------------------------------
\* close() as a method: called on a scroller whose fields hold any of the
\* values the guards distinguish, and called again after it returned.
\* ------------------------------------------------------------------------
\* ts.virtualFd < 0: the first guard skips the destroy and the close.
CloseSkipVirtual ==
    /\ pc = "closeDestroy"
    /\ virtualFd = "none"
    /\ pc' = "closeRelease"
    /\ UNCHANGED <<pathVars, configVars, countVars, devVars, sigVars,
                   loopVars, endVars>>

\* The release, then close() returns to its caller.
CloseReleaseReturn ==
    /\ pc = "closeRelease"
    /\ Release
    /\ pc' = "closeReturned"
    /\ UNCHANGED <<pathVars, configVars, countVars, virtualFd, vdev, sigVars,
                   loopVars, endVars>>

\* ts.device == nil: the second guard skips the release.
CloseSkipPhys ==
    /\ pc = "closeRelease"
    /\ phys = "closed"
    /\ pc' = "closeReturned"
    /\ UNCHANGED <<pathVars, configVars, countVars, devVars, sigVars,
                   loopVars, endVars>>

\* A further invocation of close() on the same scroller.
CloseAgain ==
    /\ pc = "closeReturned"
    /\ closeCalls < MaxCloses
    /\ pc' = "closeDestroy"
    /\ closeCalls' = closeCalls + 1
    /\ UNCHANGED <<pathVars, configVars, stopCloses, devVars, sigVars,
                   loopVars, endVars>>

\* The first invocation of close() on a scroller with the given fields;
\* trace holds the requests close() has issued.
CloseStart(fdValid, devValid) ==
    /\ pc = "closeDestroy"
    /\ sensitivity = DEFAULT_SENSITIVITY
    /\ deadZone = DEFAULT_DEAD_ZONE
    /\ build = "amd64"
    /\ finalDevicePath = <<"explicit", 0>>
    /\ scan = NoScan
    /\ phys = IF devValid THEN "grabbed" ELSE "closed"
    /\ virtualFd = IF fdValid THEN "open" ELSE "none"
    /\ vdev = IF fdValid THEN "active" ELSE "none"
    /\ trace = <<>>
    /\ notify = FALSE
    /\ signalChan = 0
    /\ lpc = "none"
    /\ stopChan = "none"
    /\ signals = 0
    /\ sigWhileHeld = FALSE
    /\ reads = 0
    /\ batch = <<>>
    /\ idx = 1
    /\ cmds = <<>>
    /\ written = <<>>
    /\ emitErr = FALSE
    /\ emitAfterErr = FALSE
    /\ readsAfterErr = 0
    /\ readsAfterStop = 0
    /\ batchesAfterStop = {}
    /\ procResult = "running"
    /\ stopAtReturn = FALSE
    /\ closeCalls = 1
    /\ stopCloses = 0
    /\ cause = "none"
    /\ exitStatus = -1

InitC == \E fdValid \in BOOLEAN, devValid \in BOOLEAN : CloseStart(fdValid, devValid)

NextC ==
    \/ CloseDestroy \/ CloseVfd \/ CloseSkipVirtual
    \/ CloseReleaseReturn \/ CloseSkipPhys
    \/ CloseAgain

SpecC == InitC /\ [][NextC]_vars

\* ------------------------------------------------------------------------
\* The lifecycle specification: main from flag.Parse to the end of the
\* process, with the default flags.
\* ------------------------------------------------------------------------
SmallSamples ==
    {Event(EV_REL, REL_X, 20), Event(EV_REL, REL_Y, 20),
     Event(EV_SYN, SYN_REPORT, 0)}

RECURSIVE SeqsUpTo(_, _)
SeqsUpTo(S, k) ==
    IF k = 0 THEN {<<>>}
    ELSE LET shorter == SeqsUpTo(S, k - 1)
         IN  shorter \cup {Append(q, x) : q \in shorter, x \in S}

Batches == SeqsUpTo(SmallSamples, MaxBatch) \ {<<>>}

Read == ReadOk(Batches, MaxReads)

Next ==
    \/ SelectDeviceOk \/ SelectDeviceFail
    \/ OpenOk \/ OpenFail \/ GrabOk \/ GrabFail
    \/ UinputOpenOk \/ UinputOpenFail
    \/ ConfigureOk \/ ConfigureFail
    \/ SetupOk \/ SetupFail
    \/ CreateOk \/ CreateFail
    \/ Settle
    \/ setupSignalHandling
    \/ SignalDefault \/ SignalNotify \/ ListenerRecv \/ ListenerClose
    \/ CheckStopClosed \/ CheckStopDefault
    \/ Read \/ ReadFail
    \/ HandleEvent
    \/ CloseDestroy \/ CloseVfd \/ CloseRelease

Spec == Init /\ [][Next]_vars

\* ------------------------------------------------------------------------
\* The translation specification: the loop of processEvents from the moment
\* both devices are ready, over the flag values and the int32 values where
\* the arithmetic of handleEvents changes behaviour, with no signal.
\* ------------------------------------------------------------------------
Sensitivities ==
    {[n |-> 3, d |-> 10], [n |-> 1, d |-> 2], [n |-> 1, d |-> 1],
     [n |-> 2, d |-> 1]}

\* -deadzone values: non-negative, as the policy requires.
DeadZones == {0, DEFAULT_DEAD_ZONE, 20, MaxInt32}

WideValues ==
    {MinInt32, MinInt32 + 1, -1073741825, -1073741824, -21, -20, -4, -3, -2,
     -1, 0, 1, 2, 3, 4, 20, 21, 1073741823, 1073741824, MaxInt32}

\* A batch with simultaneous X and Y deltas of one value, or one event.
WideBatches ==
    {<<Event(EV_REL, REL_X, m), Event(EV_REL, REL_Y, m)>> : m \in WideValues}
    \cup {<<Event(EV_REL, c, m)>> : c \in {REL_X, REL_Y, REL_WHEEL},
                                    m \in WideValues}
    \cup {<<Event(EV_SYN, SYN_REPORT, 0)>>}

\* The state when main calls processEvents, after a complete startup.
Ready(s, dz, b) ==
    /\ pc = "check"
    /\ sensitivity = s
    /\ deadZone = dz
    /\ build = b
    /\ finalDevicePath = <<"explicit", 0>>
    /\ scan = NoScan
    /\ phys = "grabbed"
    /\ virtualFd = "open"
    /\ vdev = "active"
    /\ trace = StartupOrder
    /\ notify = TRUE
    /\ signalChan = 0
    /\ lpc = "recv"
    /\ stopChan = "open"
    /\ signals = 0
    /\ sigWhileHeld = FALSE
    /\ reads = 0
    /\ batch = <<>>
    /\ idx = 1
    /\ cmds = <<>>
    /\ written = <<>>
    /\ emitErr = FALSE
    /\ emitAfterErr = FALSE
    /\ readsAfterErr = 0
    /\ readsAfterStop = 0
    /\ batchesAfterStop = {}
    /\ procResult = "running"
    /\ stopAtReturn = FALSE
    /\ closeCalls = 0
    /\ stopCloses = 0
    /\ cause = "none"
    /\ exitStatus = -1

InitT ==
    \E s \in Sensitivities, dz \in DeadZones, b \in Builds : Ready(s, dz, b)

ReadT == ReadOk(WideBatches, MaxReadsT)

NextT == CheckStopDefault \/ ReadT \/ HandleEvent

SpecT == InitT /\ [][NextT]_vars

\* ------------------------------------------------------------------------
\* The batch specification: the loop of processEvents with the default
\* flags on batches that mix motion samples with samples handleEvents
\* ignores.
\* ------------------------------------------------------------------------
MixedSamples ==
    SmallSamples \cup {Event(EV_REL, REL_WHEEL, 20), Event(EV_REL, REL_X, 1)}

MixedBatches == SeqsUpTo(MixedSamples, MaxBatch) \ {<<>>}

InitB == Ready(DEFAULT_SENSITIVITY, DEFAULT_DEAD_ZONE, "amd64")

ReadB == ReadOk(MixedBatches, MaxReads)

NextB == CheckStopDefault \/ ReadB \/ HandleEvent

SpecB == InitB /\ [][NextB]_vars

TypeOK ==
    /\ exitStatus \in {-1, 0, 1, 2}
    /\ reads \in 0 .. MaxReads
    /\ signals \in 0 .. MaxSignals
    /\ closeCalls \in 0 .. MaxCloses
    /\ stopCloses \in 0 .. MaxSignals

\* ------------------------------------------------------------------------
\* Properties
\* ------------------------------------------------------------------------
Count(o) == Cardinality({i \in DOMAIN trace : trace[i].op = o})
Issued(o) == \E i \in DOMAIN trace : trace[i].op = o
Succeeded(o) == \E i \in DOMAIN trace : trace[i] = Req(o, TRUE)
Running == pc \in {"check", "read", "handle"}
Returned == procResult # "running"
IsMotion(e) == e.type = EV_REL /\ e.code \in {REL_X, REL_Y}
\* |m| <= dz over the integers
MagAtMost(m, dz) == m # MinInt32 /\ (IF m < 0 THEN -m ELSE m) <= dz

\* C1: whenever the process has ended after processEvents returned (stop
\* observed, or a read error), UI_DEV_DESTROY has been issued exactly once,
\* and it is never issued twice.
C1_DestroyExactlyOnce ==
    /\ Count("UI_DEV_DESTROY") <= 1
    /\ (pc = "exit" /\ Returned /\ Succeeded("UI_DEV_CREATE"))
          => Count("UI_DEV_DESTROY") = 1

\* C2: the loop is running, a read has returned or a record has been written
\* only after the complete startup in order (physical open and grab, virtual
\* open, the four capabilities, setup, UI_DEV_CREATE, settle delay), and while
\* the loop runs both devices are held and nothing else has been requested.
C2_ReadyBeforeRunning ==
    /\ (Running \/ reads > 0 \/ written # <<>> \/ cmds # <<>>)
          => /\ Len(trace) >= Len(StartupOrder)
             /\ SubSeq(trace, 1, Len(StartupOrder)) = StartupOrder
    /\ Running
          => /\ trace = StartupOrder
             /\ phys = "grabbed"
             /\ virtualFd = "open"
             /\ vdev = "active"

\* C2 witness: a record has been written to the virtual device by the loop.
C2_Witness == pc = "handle" /\ written # <<>>

\* C3: once a write to the virtual device has failed the loop is no longer
\* running, processEvents has ended with an error, and nothing was emitted
\* or read afterwards.
C3_WriteErrorStopsLoop ==
    emitErr => /\ ~Running
               /\ procResult = "err"
               /\ ~emitAfterErr
               /\ readsAfterErr = 0

\* C4: when the process has ended on a virtual-device setup failure or on a
\* read error, the physical grab has been released, the virtual device, if
\* it was created, has been destroyed and its descriptor closed, and the
\* exit status is not zero.
C4_FatalReleasesAll ==
    (pc = "exit" /\ cause \in {"vdev", "read"})
      => /\ phys = "released"
         /\ Succeeded("UI_DEV_CREATE")
               => (vdev = "destroyed" /\ virtualFd = "closed")
         /\ exitStatus = 1

\* C5: when the process has ended and a signal was delivered while the
\* physical device was held, the stop indicator is set and close() has run:
\* the destroy request and the release of the grab have been issued.
C5_SignalShutsDownGracefully ==
    (pc = "exit" /\ sigWhileHeld)
      => /\ stopChan = "closed"
         /\ Issued("UI_DEV_DESTROY")
         /\ Issued("release")

\* C6: when the process has ended after processEvents ran, the exit status
\* is 0 exactly when processEvents returned on the stop indicator and no
\* read error and no write error occurred.
C6_ExitStatus ==
    (pc = "exit" /\ Returned)
      => (exitStatus = 0 <=> (procResult = "nil" /\ ~emitErr))

\* C7 as stated: after the stop indicator is closed at most one read
\* returns and at most one batch is emitted, and processEvents, when it
\* returns with the indicator closed, returns nil.
C7_AsStated ==
    /\ readsAfterStop <= 1
    /\ Cardinality(batchesAfterStop) <= 1
    /\ (Returned /\ stopAtReturn) => procResult = "nil"

\* C7 amended: after the stop indicator is closed at most one read returns
\* and at most one batch is emitted; processEvents, when it returns with the
\* indicator closed, returns nil, or returns the read error when the read in
\* flight failed, in which case no read has returned since the close.
C7_AtMostOneCycleAfterStop ==
    /\ readsAfterStop <= 1
    /\ Cardinality(batchesAfterStop) <= 1
    /\ batchesAfterStop \subseteq {reads}
    /\ (Returned /\ stopAtReturn)
          => \/ procResult = "nil"
             \/ procResult = "err" /\ cause = "read" /\ readsAfterStop = 0

\* C7 witness: the read in flight returned after the close, its batch was
\* emitted, and processEvents then returned nil.
C7_Witness ==
    /\ readsAfterStop = 1
    /\ batchesAfterStop # {}
    /\ procResult = "nil"

\* C8: no X or Y motion sample whose magnitude is at most the dead zone makes
\* handleEvents call sendScrollEvent, whatever the sensitivity, and no record
\* is written unless some sample of the batch made it call sendScrollEvent.
C8_DeadZoneSuppresses ==
    /\ \A i \in 1 .. Len(cmds) :
          (IsMotion(batch[i]) /\ MagAtMost(batch[i].value, deadZone))
            => ~cmds[i].sent
    /\ Len(written) <= 2 * Cardinality({i \in 1 .. Len(cmds) : cmds[i].sent})

\* C8 witness: a sample exactly at a positive dead zone, scaled by a
\* sensitivity that would give a non-zero value, has been handled.
C8_Witness ==
    \E i \in 1 .. Len(cmds) :
        /\ IsMotion(batch[i])
        /\ deadZone > 0
        /\ batch[i].value \in {deadZone, -deadZone}
        /\ ScaleExact(batch[i].value, sensitivity).val # 0

\* C9: every X or Y motion sample whose magnitude exceeds the dead zone
\* yields no command when its scaled value truncates to 0, and otherwise
\* exactly the command with the truncated scaled value (X) or its negation
\* (Y).
C9_ScaledCommand ==
    \A i \in 1 .. Len(cmds) :
        (IsMotion(batch[i]) /\ ~MagAtMost(batch[i].value, deadZone))
          => LET x == ScaleExact(batch[i].value, sensitivity)
             IN  IF x.fits /\ x.val = 0
                 THEN ~cmds[i].sent
                 ELSE /\ cmds[i].sent
                      /\ x.fits
                      /\ cmds[i].horiz = (batch[i].code = REL_X)
                      /\ IF batch[i].code = REL_X
                         THEN cmds[i].value = x.val
                         ELSE x.val # MinInt32 /\ cmds[i].value = -x.val

\* C10: an X sample and a Y sample of the same value are emitted or not
\* together, and when emitted the Y value is the negation of the X value, Y
\* as REL_WHEEL and X as REL_HWHEEL.
C10_VerticalNegatesHorizontal ==
    \A i, j \in 1 .. Len(cmds) :
        (/\ batch[i].type = EV_REL /\ batch[i].code = REL_X
         /\ batch[j].type = EV_REL /\ batch[j].code = REL_Y
         /\ batch[i].value = batch[j].value)
          => /\ cmds[i].sent <=> cmds[j].sent
             /\ cmds[i].sent
                   => /\ cmds[i].value # MinInt32
                      /\ cmds[j].value = -cmds[i].value
                      /\ sendScrollEvent(cmds[i].horiz, cmds[i].value)[1].code
                            = REL_HWHEEL
                      /\ sendScrollEvent(cmds[j].horiz, cmds[j].value)[1].code
                            = REL_WHEEL


\* C11: the records written to the virtual device form complete frames:
\* every EV_REL record that is followed by another record is followed by a
\* SYN_REPORT record of value 0, and every SYN_REPORT record directly follows
\* an EV_REL record.
C11_CompleteFrames ==
    \A i \in 1 .. Len(written) :
        /\ (written[i].type = EV_REL /\ i < Len(written))
              => written[i + 1] =
                    [type |-> EV_SYN, code |-> SYN_REPORT, value |-> 0]
        /\ written[i].type = EV_SYN
              => (i > 1 /\ written[i - 1].type = EV_REL)


\* The names expected to be classified as trackballs: "Kensington Expert
\* Mouse" and "ORBIT" contain a keyword once lower-cased, "Generic USB Mouse"
\* and "Track Ball" contain none.
ExpectedTrackballs == {KensingtonExpertMouse, OrbitUpper}
Candidates(nodes) ==
    {i \in DOMAIN nodes : nodes[i].open /\ nodes[i].name \in ExpectedTrackballs}
Lowest(S) == CHOOSE i \in S : \A j \in S : i <= j

\* C12: after selectDevice with an explicit path no node was probed and the
\* path is the given one; after selectDevice("auto") succeeded some probed
\* node is a candidate and the path is the candidate of lowest index; when
\* selectDevice("auto") failed no node is a candidate and no device has been
\* opened or grabbed.
C12_SelectDevice ==
    /\ (pc = "open" /\ ~scan.auto)
          => (scan.probed = <<>> /\ finalDevicePath = <<"explicit", 0>>)
    /\ (pc = "open" /\ scan.auto)
          => /\ Candidates(scan.nodes) # {}
             /\ finalDevicePath = <<"event", Lowest(Candidates(scan.nodes))>>
    /\ (pc = "exit" /\ cause = "select")
          => /\ scan.auto
             /\ scan.probed = Probed
             /\ Candidates(scan.nodes) = {}
             /\ trace = <<>>
             /\ phys = "closed"

\* C12 witness: the scan skipped an unopenable node 0 and chose node 1,
\* whose upper-case name matches a keyword only once lower-cased.
C12_Witness ==
    /\ pc = "open"
    /\ scan.auto
    /\ ~scan.nodes[0].open
    /\ scan.nodes[1].name = OrbitUpper
    /\ finalDevicePath = <<"event", 1>>


FirstAt(o) == CHOOSE i \in DOMAIN trace : trace[i].op = o /\ \A j \in 1 .. (i - 1) : trace[j].op # o
LastAt(o) == CHOOSE i \in DOMAIN trace : trace[i].op = o /\ \A j \in (i + 1) .. Len(trace) : trace[j].op # o

\* C13: a release of the physical grab is issued only after the destroy
\* request and, after that, the close of the virtual descriptor have been
\* issued; and once close() has run to the end of the process, all three
\* have been issued whether or not the destroy or the close succeeded.
C13_CloseOrder ==
    /\ Issued("release")
          => /\ Issued("UI_DEV_DESTROY")
             /\ \E j \in DOMAIN trace :
                   /\ trace[j].op = "vclose"
                   /\ LastAt("UI_DEV_DESTROY") < j
                   /\ j < FirstAt("release")
    /\ (pc = "exit" /\ cause = "stop")
          => /\ Issued("UI_DEV_DESTROY")
             /\ Issued("vclose")
             /\ Issued("release")
    /\ pc = "closeRelease" => (Issued("UI_DEV_DESTROY") /\ Issued("vclose"))
    /\ pc = "closeVfd" => Issued("UI_DEV_DESTROY")

\* C13 witness: the destroy request and the close of the descriptor both
\* failed and the release was still issued.
C13_Witness ==
    /\ \E i \in DOMAIN trace : trace[i] = Req("UI_DEV_DESTROY", FALSE)
    /\ \E i \in DOMAIN trace : trace[i] = Req("vclose", FALSE)
    /\ Issued("release")


\* C14: close() is idempotent and guarded. However often it is invoked, at
\* most one UI_DEV_DESTROY, one close of the virtual descriptor and one
\* release of the physical handle are issued; once a first invocation has
\* returned the destroy of a valid virtual device was requested; with an
\* invalid descriptor no request is made for the virtual device, with a nil handle none for the
\* physical one.
C14_CloseIdempotent ==
    /\ Count("UI_DEV_DESTROY") <= 1
    /\ Count("vclose") <= 1
    /\ Count("release") <= 1
    /\ (pc = "closeReturned" /\ virtualFd # "none"
           => Issued("UI_DEV_DESTROY"))
    /\ (virtualFd = "none" => ~Issued("UI_DEV_DESTROY") /\ ~Issued("vclose"))
    /\ (phys = "closed" => ~Issued("release"))


\* What handleEvents does with each sample of MixedSamples under the default
\* flags, written out: 20 on X scrolls 6 horizontally, 20 on Y scrolls -6
\* vertically, every other sample is ignored.
ExpectedCmd(e) ==
    IF e = Event(EV_REL, REL_X, 20) THEN Cmd(TRUE, 6)
    ELSE IF e = Event(EV_REL, REL_Y, 20) THEN Cmd(FALSE, -6)
    ELSE NoCmd

RECURSIVE IsSubseq(_, _)
IsSubseq(w, e) ==
    IF w = <<>> THEN TRUE
    ELSE IF e = <<>> THEN FALSE
    ELSE IF Head(w) = Head(e) THEN IsSubseq(Tail(w), Tail(e))
    ELSE IsSubseq(w, Tail(e))

IsSent(c) == c.sent
IsRel(r) == r.type = EV_REL

\* The EV_REL records of the scroll commands issued for the current batch.
SentRel ==
    LET sent == SelectSeq(cmds, IsSent)
    IN  [i \in 1 .. Len(sent) |->
            [type |-> EV_REL,
             code |-> IF sent[i].horiz THEN REL_HWHEEL ELSE REL_WHEEL,
             value |-> sent[i].value]]

\* C15: within a batch every sample is evaluated on its own: the command
\* issued for a sample depends on that sample alone, whatever happened to the
\* emissions before it; samples that are not relative motion on X or Y issue
\* nothing; the scroll records on the virtual device are in the order of
\* their source samples, and exactly those of the issued commands when no
\* write failed; a batch is handled to its end before the next read.
C15_IndependentInOrder ==
    /\ Len(cmds) = idx - 1
    /\ \A i \in 1 .. Len(cmds) : cmds[i] = ExpectedCmd(batch[i])
    /\ (pc # "handle" => idx = Len(batch) + 1)
    /\ IsSubseq(SelectSeq(written, IsRel), SentRel)
    /\ (~emitErr => SelectSeq(written, IsRel) = SentRel)

\* The second batch holds two motion samples; the emission of the first
\* failed entirely and the second was still emitted.
C15_Witness ==
    /\ pc = "check"
    /\ reads = 2
    /\ batch = <<Event(EV_REL, REL_X, 20), Event(EV_REL, REL_Y, 20)>>
    /\ written = sendScrollEvent(FALSE, -6)


Min(a, b) == IF a < b THEN a ELSE b

\* C16: createScrollOnlyDevice issues open, the four capabilities, setup,
\* activate and settle in this order (requests 3 to 10 of a startup, after
\* the open and the grab of the physical device). When one of them fails it
\* is the last startup request: only the close of the control descriptor
\* follows it (nothing after a failed open), the device was never activated,
\* the process ends with status 1 and no scroller exists: close() is never
\* called, nothing is read and no signal handler is installed.
C16_CreateOrder ==
    LET last == Min(Len(trace), Len(StartupOrder))
        failed == {i \in 3 .. last : ~trace[i].ok}
    IN  /\ \A i \in 3 .. last :
              (\A j \in 3 .. i - 1 : trace[j].ok)
                  => trace[i].op = StartupOrder[i].op
        /\ \A i \in failed :
              /\ trace = SubSeq(StartupOrder, 1, i - 1)
                            \o <<Req(StartupOrder[i].op, FALSE)>>
                            \o (IF i = 3 THEN <<>>
                                ELSE <<Req("vclose", TRUE)>>)
              /\ pc = "exit"
              /\ cause = "vdev"
              /\ exitStatus = 1
              /\ virtualFd = IF i = 3 THEN "none" ELSE "closed"
              /\ vdev = "none"
              /\ closeCalls = 0
              /\ reads = 0
              /\ ~notify
        /\ (vdev = "active"
              => SubSeq(trace, 1, Len(StartupOrder) - 1)
                    = SubSeq(StartupOrder, 1, Len(StartupOrder) - 1))

\* The setup request failed: the descriptor was closed and the process ended.
C16_Witness ==
    /\ pc = "exit"
    /\ Len(trace) = 9
    /\ trace[8] = Req("UI_DEV_SETUP", FALSE)
    /\ trace[9] = Req("vclose", TRUE)


\* C17: whatever signals arrive after setupSignalHandling, close(stopChan)
\* is executed at most once, and the channel is closed exactly when it was;
\* the channel changes only when setupSignalHandling makes it and when the
\* listener goroutine, at its close statement, closes it and ends: it is
\* never re-opened and the event loop never changes it.
C17_StopClosedOnce ==
    /\ [](/\ stopCloses <= 1
          /\ (stopChan = "closed" <=> stopCloses = 1)
          /\ (lpc = "done" <=> stopCloses = 1))
    /\ [][stopChan' # stopChan
            => \/ stopChan = "none" /\ stopChan' = "open"
                    /\ pc = "signalSetup"
               \/ stopChan = "open" /\ stopChan' = "closed"
                    /\ lpc = "close" /\ lpc' = "done" /\ pc' = pc]_vars

\* Two signals were delivered after the handler was installed, the second
\* one is still buffered, and the channel was closed once.
C17_Witness ==
    /\ notify
    /\ signals = 2
    /\ signalChan = 1
    /\ stopCloses = 1
    /\ stopChan = "closed"


\* C18: once the stop channel is closed while the loop runs, a process that
\* ends has requested the destroy of the virtual device and the release of
\* the physical device, and has completed at most one read since the close.
C18_StopEndsReleased ==
    (stopChan = "closed" /\ pc = "exit")
        => /\ Issued("UI_DEV_DESTROY")
           /\ Issued("release")
           /\ readsAfterStop <= 1

====
